---- MODULE Spec2Model ----
(***************************************************************************)
(* Model of ethwallet/client.py: the Client class (construction, session   *)
(* building, URI creation, request dispatch, the two endpoint helpers).    *)
(*                                                                         *)
(* Python strings are sequences of one-character strings, so that quoting, *)
(* joining and URL resolution are computed character by character.         *)
(* Python values are tagged records: None, Str(s), Bool(b), Dict(items).   *)
(* A dict is the sequence of its <<key, value>> items in insertion order.  *)
(* A keyword-argument mapping (kwargs) is a function from the keyword      *)
(* names present to values.                                                *)
(***************************************************************************)
EXTENDS Integers, Sequences, FiniteSets, Bags, TLC

VARIABLES
    VERIFY_SSL,                  \* class attribute Client.VERIFY_SSL
    cached_callback_public_key,  \* class attribute Client.cached_callback_public_key
    clients,                     \* the Client objects built so far, in order of construction
    constructedWith,             \* history: the constructor arguments of each of them
    lastInit,                    \* the last call of Client.__init__: arguments, collaborator calls, outcome
    inflight,                    \* bag of the operations whose session call is in flight (one per calling thread)
    optedOut                     \* history: VERIFY_SSL has been assigned False by the application

vars == <<VERIFY_SSL, cached_callback_public_key, clients, constructedWith, lastInit, inflight,
          optedOut>>

-----------------------------------------------------------------------------
(* Bounds of the model *)

MaxClients == 2
MaxThreads == 2
MaxParts == 2

-----------------------------------------------------------------------------
(* Python values *)

None == [type |-> "NoneType"]
Str(s) == [type |-> "str", val |-> s]
Bool(b) == [type |-> "bool", val |-> b]
Dict(items) == [type |-> "dict", val |-> items]

\* Python truth value testing (`not x`, `if x`, `x or y`)
Truthy(x) ==
    CASE x.type = "NoneType" -> FALSE
      [] x.type = "bool" -> x.val
      [] x.type = "str" -> x.val # <<>>
      [] x.type = "dict" -> x.val # <<>>

\* isinstance(x, dict)
IsDict(x) == x.type = "dict"

-----------------------------------------------------------------------------
(* String literals *)

s_empty == <<>>
s_slash == <<"/">>
s_v1 == <<"v", "1">>
s_send == <<"s", "e", "n", "d">>
s_addresses == <<"a", "d", "d", "r", "e", "s", "s", "e", "s">>
s_amount == <<"a", "m", "o", "u", "n", "t">>
s_address == <<"a", "d", "d", "r", "e", "s", "s">>
s_slash_v1 == <<"/", "v", "1">>
s_a_b == <<"a", " ", "b">>
s_dotdot == <<".", ".">>
s_https == <<"h", "t", "t", "p", "s">>
s_http == <<"h", "t", "t", "p">>
s_host == <<"h">>
s_api_dir == <<"/", "a", "p", "i", "/">>
s_api_file == <<"/", "a", "p", "i">>
s_k1 == <<"k", "1">>
s_k2 == <<"k", "2">>
s_s1 == <<"s", "1">>
s_5 == <<"5">>
s_11 == <<"1", "1">>
s_0xabc == <<"0", "x", "a", "b", "c">>
s_encoded == <<"a", "=", "1">>
s_other_ca == <<"m", "y", ".", "c", "r", "t">>
s_version2 == <<"2", "0", "2", "0">>

\* ETHCLIENT_CRT_PATH: <package directory>/ca-ethwallet.crt
ETHCLIENT_CRT_PATH ==
    <<"c", "a", "-", "e", "t", "h", "w", "a", "l", "l", "e", "t", ".", "c", "r", "t">>

\* ETHCLIENT_CALLBACK_PUBLIC_KEY_PATH: <package directory>/ethwallet-callback.pub
ETHCLIENT_CALLBACK_PUBLIC_KEY_PATH ==
    <<"e", "t", "h", "w", "a", "l", "l", "e", "t", "-", "c", "a", "l", "l", "b", "a", "c", "k",
      ".", "p", "u", "b">>

\* Client.API_VERSION, the class attribute
API_VERSION == <<"2", "0", "1", "6", "-", "0", "5", "-", "1", "7">>

-----------------------------------------------------------------------------
(* String helpers *)

\* The characters of the model in ASCII order (only the order is used).
Ascii ==
    <<" ", "%", "&", "-", ".", "/", "0", "1", "2", "3", "5", "6", "7", "=",
      "a", "b", "c", "d", "e", "h", "i", "k", "l", "m", "n", "o", "p", "r",
      "s", "t", "u", "v", "w", "x", "y">>

Ord(ch) == CHOOSE i \in DOMAIN Ascii : Ascii[i] = ch

\* s < t for Python strings (lexicographic by code point)
RECURSIVE StrLess(_, _)
StrLess(s, t) ==
    IF t = <<>> THEN FALSE
    ELSE IF s = <<>> THEN TRUE
    ELSE IF Head(s) = Head(t) THEN StrLess(Tail(s), Tail(t))
    ELSE Ord(Head(s)) < Ord(Head(t))

\* sep.join(strs)
RECURSIVE Join(_, _)
Join(strs, sep) ==
    IF strs = <<>> THEN <<>>
    ELSE IF Len(strs) = 1 THEN strs[1]
    ELSE strs[1] \o sep \o Join(Tail(strs), sep)

\* s.split('/'): always at least one piece
RECURSIVE Split(_)
Split(s) ==
    IF s = <<>> THEN << <<>> >>
    ELSE IF Head(s) = "/" THEN << <<>> >> \o Split(Tail(s))
    ELSE LET rest == Split(Tail(s))
         IN  << <<Head(s)>> \o rest[1] >> \o Tail(rest)

\* filter(None, strs): drop the empty strings
RECURSIVE FilterNonEmpty(_)
FilterNonEmpty(strs) ==
    IF strs = <<>> THEN <<>>
    ELSE IF Head(strs) = <<>> THEN FilterNonEmpty(Tail(strs))
    ELSE <<Head(strs)>> \o FilterNonEmpty(Tail(strs))

\* the percent escape of a character that is not safe
PercentEscape(ch) ==
    CASE ch = " " -> <<"%", "2", "0">>
      [] ch = "%" -> <<"%", "2", "5">>
      [] ch = "&" -> <<"%", "2", "6">>
      [] ch = "/" -> <<"%", "2", "F">>
      [] ch = "=" -> <<"%", "3", "D">>

\* characters urllib never quotes: letters, digits and "_.-~"
AlwaysSafe == {Ascii[i] : i \in DOMAIN Ascii} \ {" ", "%", "&", "/", "="}

\* quote(s) with the default safe='/'
RECURSIVE quote(_)
quote(s) ==
    IF s = <<>> THEN <<>>
    ELSE (IF Head(s) \in AlwaysSafe \cup {"/"} THEN <<Head(s)>> ELSE PercentEscape(Head(s)))
         \o quote(Tail(s))

-----------------------------------------------------------------------------
(* URIs.  An absolute URI is kept parsed: [scheme, netloc, path]; the      *)
(* relative references joined to it are strings.                           *)

Uri(scheme, netloc, path) == [scheme |-> scheme, netloc |-> netloc, path |-> path]

\* the index of the first '/' of s at or after position i, or Len(s) + 1
RECURSIVE NextSlash(_, _)
NextSlash(s, i) ==
    IF i > Len(s) THEN Len(s) + 1
    ELSE IF s[i] = "/" THEN i
    ELSE NextSlash(s, i + 1)

\* urlparse of a relative reference without scheme, query or fragment:
\* a leading "//" starts a network location.
RefNetloc(url) ==
    IF Len(url) >= 2 /\ SubSeq(url, 1, 2) = <<"/", "/">>
    THEN SubSeq(url, 3, NextSlash(url, 3) - 1)
    ELSE <<>>

RefHasNetloc(url) == Len(url) >= 2 /\ SubSeq(url, 1, 2) = <<"/", "/">>

RefPath(url) ==
    IF RefHasNetloc(url) THEN SubSeq(url, NextSlash(url, 3), Len(url)) ELSE url

\* the dot-segment loop of urljoin
RECURSIVE ResolveDots(_, _)
ResolveDots(segments, resolved) ==
    IF segments = <<>> THEN resolved
    ELSE IF Head(segments) = <<".", ".">>
         THEN ResolveDots(Tail(segments),
                          IF resolved = <<>> THEN <<>>
                          ELSE SubSeq(resolved, 1, Len(resolved) - 1))
    ELSE IF Head(segments) = <<".">> THEN ResolveDots(Tail(segments), resolved)
    ELSE ResolveDots(Tail(segments), Append(resolved, Head(segments)))

\* urlunparse: a path that does not start with '/' gets one after a netloc
Unparse(scheme, netloc, path) ==
    Uri(scheme, netloc,
        IF path # <<>> /\ Head(path) # "/" THEN <<"/">> \o path ELSE path)

\* urljoin(base, url) of Python 3, for a non-empty reference url
urljoin(base, url) ==
    IF RefNetloc(url) # <<>> THEN Unparse(base.scheme, RefNetloc(url), RefPath(url))
    ELSE
    LET path == RefPath(url)
        split == Split(base.path)
        base_parts == IF split[Len(split)] # <<>>
                      THEN SubSeq(split, 1, Len(split) - 1) ELSE split
        joined == base_parts \o Split(path)
        segments ==
            IF Head(path) = "/" THEN Split(path)
            ELSE IF Len(joined) <= 2 THEN joined
            ELSE <<joined[1]>> \o FilterNonEmpty(SubSeq(joined, 2, Len(joined) - 1))
                 \o <<joined[Len(joined)]>>
        last == segments[Len(segments)]
        resolved == ResolveDots(segments, <<>>)
                    \o (IF last = <<".">> \/ last = <<".", ".">> THEN << <<>> >> ELSE <<>>)
        resolved_path == Join(resolved, <<"/">>)
    IN  IF path = <<>> THEN Unparse(base.scheme, base.netloc, base.path)
        ELSE Unparse(base.scheme, base.netloc,
                     IF resolved_path = <<>> THEN <<"/">> ELSE resolved_path)

-----------------------------------------------------------------------------
(* Keyword arguments *)

NoKwargs == [k \in {} |-> None]

\* kwargs.get(k, default)
KwGet(kw, k, default) == IF k \in DOMAIN kw THEN kw[k] ELSE default

\* kwargs[k] = v, kwargs.update(k=v)
KwSet(kw, k, v) == [x \in DOMAIN kw \cup {k} |-> IF x = k THEN v ELSE kw[x]]

\* kwargs.setdefault(k, v)
KwSetDefault(kw, k, v) == IF k \in DOMAIN kw THEN kw ELSE KwSet(kw, k, v)

-----------------------------------------------------------------------------
(* Collaborators imported from .util (TransportPolicy and CanonicalEncoder) *)

\* check_uri_security(uri): the URI itself, or a failure for a scheme that
\* is not the encrypted one
check_uri_security(uri) ==
    IF uri.scheme = s_https
    THEN [raised |-> "None", value |-> uri]
    ELSE [raised |-> "InsecureTransportError", value |-> uri]

\* the items sorted by key, by insertion
RECURSIVE InsertByKey(_, _)
InsertByKey(item, sorted) ==
    IF sorted = <<>> THEN <<item>>
    ELSE IF StrLess(item[1], Head(sorted)[1]) THEN <<item>> \o sorted
    ELSE <<Head(sorted)>> \o InsertByKey(item, Tail(sorted))

RECURSIVE SortByKey(_)
SortByKey(items) ==
    IF items = <<>> THEN <<>> ELSE InsertByKey(Head(items), SortByKey(Tail(items)))

\* percent-encoding of a parameter value: nothing but the unreserved
\* characters is left as it is
RECURSIVE EscapeValue(_)
EscapeValue(s) ==
    IF s = <<>> THEN <<>>
    ELSE (IF Head(s) \in AlwaysSafe THEN <<Head(s)>> ELSE PercentEscape(Head(s)))
         \o EscapeValue(Tail(s))

\* encode_params(params): key=value pairs, keys sorted, joined by '&'
encode_params(params) ==
    LET items == SortByKey(params.val)
    IN  Str(Join([i \in DOMAIN items |->
                    items[i][1] \o <<"=">> \o EscapeValue(items[i][2].val)], <<"&">>))

-----------------------------------------------------------------------------
(* class Client *)

NoClient == [class |-> "NoClient"]

\* Client._build_session(auth_class, args...): a new session whose auth is
\* auth_class(args...), with the JSON headers
Client_build_session(auth_class, args) ==
    [auth |-> [class |-> auth_class, args |-> args],
     headers |-> [Accept |-> "application/json",
                  ContentType |-> "application/json",
                  UserAgent |-> "ethwallet/python/3.0"]]

\* __init__ that stores base_api_uri without checking it
Client_init_unchecked(api_key, api_secret, base_api_uri, api_version) ==
    IF ~Truthy(api_key)
    THEN [raised |-> "ValueError: Missing api_key.", calls |-> <<>>, self |-> NoClient]
    ELSE IF ~Truthy(api_secret)
    THEN [raised |-> "ValueError: Missing api_secret.", calls |-> <<>>, self |-> NoClient]
    ELSE
    LET version == IF Truthy(api_version) THEN api_version ELSE Str(API_VERSION)
    IN  [raised |-> "None",
         calls |-> <<"requests.session", "HMACAuth">>,
         self |-> [class |-> "Client",
                   BASE_API_URI |-> base_api_uri,
                   API_VERSION |-> version,
                   session |-> Client_build_session("HMACAuth",
                                   <<api_key, api_secret, version>>)]]

\* __init__ that tests api_key only
Client_init_secret_unchecked(api_key, api_secret, base_api_uri, api_version) ==
    IF ~Truthy(api_key)
    THEN [raised |-> "ValueError: Missing api_key.", calls |-> <<>>, self |-> NoClient]
    ELSE
    LET checked == check_uri_security(base_api_uri)
        version == IF Truthy(api_version) THEN api_version ELSE Str(API_VERSION)
    IN  IF checked.raised # "None"
        THEN [raised |-> checked.raised, calls |-> <<"check_uri_security">>,
              self |-> NoClient]
        ELSE [raised |-> "None",
              calls |-> <<"check_uri_security", "requests.session", "HMACAuth">>,
              self |-> [class |-> "Client",
                        BASE_API_URI |-> checked.value,
                        API_VERSION |-> version,
                        session |-> Client_build_session("HMACAuth",
                                   <<api_key, api_secret, version>>)]]

\* Client.__init__(api_key, api_secret, base_api_uri, api_version): the
\* exception raised ("None" for a normal return), the collaborators called,
\* in order, and the object built
Client_init(api_key, api_secret, base_api_uri, api_version) ==
    IF ~Truthy(api_key)
    THEN [raised |-> "ValueError: Missing api_key.", calls |-> <<>>, self |-> NoClient]
    ELSE IF ~Truthy(api_secret)
    THEN [raised |-> "ValueError: Missing api_secret.", calls |-> <<>>, self |-> NoClient]
    ELSE
    LET checked == check_uri_security(base_api_uri)
        version == IF Truthy(api_version) THEN api_version ELSE Str(API_VERSION)
    IN  IF checked.raised # "None"
        THEN [raised |-> checked.raised, calls |-> <<"check_uri_security">>,
              self |-> NoClient]
        ELSE [raised |-> "None",
              calls |-> <<"check_uri_security", "requests.session", "HMACAuth">>,
              self |-> [class |-> "Client",
                        BASE_API_URI |-> checked.value,
                        API_VERSION |-> version,
                        session |-> Client_build_session("HMACAuth",
                                        <<api_key, api_secret, version>>)]]

\* Client._create_api_uri(parts...)
Client_create_api_uri(self, parts) ==
    LET all == Append(parts, <<"/">>)
    IN  urljoin(self.BASE_API_URI, Join([i \in DOMAIN all |-> quote(all[i])], <<"/">>))

\* _request without its kwargs.update(verify=...): a verify keyword of the
\* caller wins
RequestKwargs_setdefault_only(kwargs) ==
    LET data == KwGet(kwargs, "data", None)
        kw1 == IF Truthy(data) /\ IsDict(data)
               THEN KwSet(kwargs, "data", encode_params(data)) ELSE kwargs
    IN  IF VERIFY_SSL
        THEN KwSetDefault(kw1, "verify", Bool(TRUE))
        ELSE KwSetDefault(kw1, "verify", Bool(FALSE))

\* _request that lets a caller switch verification off, never on
RequestKwargs_caller_opt_out(kwargs) ==
    LET data == KwGet(kwargs, "data", None)
        kw1 == IF Truthy(data) /\ IsDict(data)
               THEN KwSet(kwargs, "data", encode_params(data)) ELSE kwargs
        asked == KwGet(kwargs, "verify", Bool(TRUE))
    IN  KwSet(kw1, "verify", Bool(VERIFY_SSL /\ Truthy(asked)))

\* _request that encodes every dict, the empty one too
RequestKwargs_encodes_any_dict(kwargs) ==
    LET data == KwGet(kwargs, "data", None)
        kw1 == IF IsDict(data)
               THEN KwSet(kwargs, "data", encode_params(data)) ELSE kwargs
    IN  KwSet(kw1, "verify", Bool(VERIFY_SSL))

\* the keyword arguments Client._request hands to the session call
RequestKwargs(kwargs) ==
    LET data == KwGet(kwargs, "data", None)
        kw1 == IF Truthy(data) /\ IsDict(data)
               THEN KwSet(kwargs, "data", encode_params(data)) ELSE kwargs
        kw2 == IF VERIFY_SSL
               THEN KwSetDefault(kw1, "verify", Str(ETHCLIENT_CRT_PATH))
               ELSE KwSetDefault(kw1, "verify", Bool(FALSE))
    IN  KwSet(kw2, "verify", Bool(VERIFY_SSL))

\* Client._request(method, relative_path_parts..., kwargs...) up to the session
\* call: getattr(self.session, method)(uri, kwargs...)
Client_request(self, method, relative_path_parts, kwargs) ==
    [session |-> self.session,
     method |-> method,
     uri |-> Client_create_api_uri(self, relative_path_parts),
     kwargs |-> RequestKwargs(kwargs)]

Client_get(self, parts, kwargs) == Client_request(self, "get", parts, kwargs)
Client_post(self, parts, kwargs) == Client_request(self, "post", parts, kwargs)
Client_put(self, parts, kwargs) == Client_request(self, "put", parts, kwargs)
Client_delete(self, parts, kwargs) == Client_request(self, "delete", parts, kwargs)

\* Client.create_address()
Client_create_address(self) == Client_post(self, <<s_v1, s_addresses>>, NoKwargs)

\* Client.send(amount, address)
Client_send(self, amount, address) ==
    LET params == Dict(<< <<s_amount, amount>>, <<s_address, address>> >>)
    IN  Client_post(self, <<s_v1, s_send>>, [data |-> params])

-----------------------------------------------------------------------------
(* Inputs.  A set of inputs I names the constructor arguments, the request *)
(* arguments and the numbers of clients and of concurrent callers that the *)
(* operations draw from.                                                   *)

BaseRoot == Uri(s_https, s_host, s_slash)
BaseDir == Uri(s_https, s_host, s_api_dir)
BaseFile == Uri(s_https, s_host, s_api_file)
BasePlain == Uri(s_http, s_host, s_api_dir)

\* all sequences of at most n elements of S
RECURSIVE SeqsUpTo(_, _)
SeqsUpTo(S, n) ==
    IF n = 0 THEN {<<>>}
    ELSE LET shorter == SeqsUpTo(S, n - 1)
         IN  shorter \cup {Append(q, x) : q \in shorter, x \in S}

TwoParams == Dict(<< <<s_amount, Str(s_5)>>, <<s_address, Str(s_0xabc)>> >>)
TwoParamsSwapped == Dict(<< <<s_address, Str(s_0xabc)>>, <<s_amount, Str(s_5)>> >>)
Timeout == [type |-> "int", val |-> 30]
\* an auth handler of the caller's own, passed as the auth keyword
OtherAuth == [type |-> "auth", class |-> "OtherAuth", args |-> <<>>]

\* concurrent callers on several clients, few argument values
ConcurrentInputs ==
    [maxClients |-> MaxClients,
     maxInflight |-> MaxThreads,
     initArgs |-> {<<Str(s_k1), Str(s_s1), BaseDir, None>>,
                   <<Str(s_k2), Str(s_s1), BaseDir, Str(s_version2)>>,
                   <<Str(s_k1), None, BaseDir, None>>,
                   <<Str(s_k1), Str(s_s1), BasePlain, None>>},
     amounts |-> {Str(s_5)},
     addresses |-> {Str(s_0xabc)},
     methods |-> {"get"},
     parts |-> {<<s_v1, s_send>>},
     kwargs |-> {[verify |-> Bool(FALSE)]}]

\* one caller, all combinations of constructor arguments
ConstructionInputs ==
    [maxClients |-> 1,
     maxInflight |-> 1,
     initArgs |-> {None, Str(s_empty), Str(s_k1)}
                  \X {None, Str(s_empty), Str(s_s1)}
                  \X {BaseRoot, BaseFile, BasePlain}
                  \X {None, Str(s_empty), Str(s_version2)},
     amounts |-> {Str(s_5)},
     addresses |-> {Str(s_0xabc)},
     methods |-> {"get"},
     parts |-> {<<s_v1, s_send>>},
     kwargs |-> {NoKwargs}]

\* one caller on one client, many request arguments
RequestInputs ==
    [maxClients |-> 1,
     maxInflight |-> 1,
     initArgs |-> {<<Str(s_k1), Str(s_s1), b, None>> : b \in {BaseRoot, BaseDir, BaseFile}}
                  \cup {<<Str(s_k2), Str(s_s1), BaseDir, Str(s_version2)>>},
     amounts |-> {Str(s_5), Str(s_11)},
     addresses |-> {Str(s_0xabc), Str(s_empty), Str(s_a_b)},
     methods |-> {"get", "post", "put", "delete"},
     parts |-> SeqsUpTo({s_v1, s_send, s_empty, s_slash_v1, s_a_b}, MaxParts),
     kwargs |-> {NoKwargs,
                 [data |-> None],
                 [data |-> Dict(<<>>)],
                 [data |-> TwoParams],
                 [data |-> TwoParamsSwapped],
                 [data |-> Str(s_encoded)],
                 [data |-> Str(s_empty)],
                 [verify |-> Bool(FALSE)],
                 [verify |-> Str(s_other_ca)],
                 [verify |-> Bool(FALSE), data |-> TwoParams],
                 [timeout |-> Timeout],
                 [timeout |-> Timeout, data |-> TwoParams],
                 [auth |-> OtherAuth],
                 [auth |-> None, data |-> TwoParams]}]

-----------------------------------------------------------------------------
(* The state machine *)

Init ==
    /\ VERIFY_SSL = TRUE
    /\ cached_callback_public_key = None
    /\ clients = <<>>
    /\ constructedWith = <<>>
    /\ lastInit = [class |-> "NoCall"]
    /\ inflight = EmptyBag
    /\ optedOut = FALSE

\* client = Client(api_key, api_secret, base_api_uri, api_version)
Construct(I) ==
    \E a \in I.initArgs :
        LET r == Client_init(a[1], a[2], a[3], a[4])
        IN  /\ r.raised = "None" => Len(clients) < I.maxClients
            /\ clients' = IF r.raised = "None" THEN Append(clients, r.self) ELSE clients
            /\ constructedWith' = IF r.raised = "None" THEN Append(constructedWith, a)
                                  ELSE constructedWith
            /\ lastInit' = [class |-> "Call",
                            api_key |-> a[1], api_secret |-> a[2],
                            base_api_uri |-> a[3], api_version |-> a[4],
                            raised |-> r.raised, calls |-> r.calls, self |-> r.self]
            /\ UNCHANGED <<VERIFY_SSL, cached_callback_public_key, inflight, optedOut>>

\* Client.VERIFY_SSL = b, assigned by the application on the class: __init__
\* gives an instance no VERIFY_SSL of its own, so self.VERIFY_SSL reads it
SetVerifySSL ==
    \E b \in BOOLEAN :
        /\ b # VERIFY_SSL
        /\ VERIFY_SSL' = b
        /\ optedOut' = (optedOut \/ ~b)
        /\ UNCHANGED <<cached_callback_public_key, clients, constructedWith, lastInit, inflight>>

\* a request that stores the URI it built as the client's BASE_API_URI
Dispatch_rebases(c, op, args, call) ==
    /\ inflight' = inflight (+) SetToBag({[op |-> op, self |-> c, args |-> args,
                                           verify_ssl |-> VERIFY_SSL,
                                           calls |-> <<call>>]})
    /\ clients' = [clients EXCEPT ![c].BASE_API_URI = call.uri]
    /\ UNCHANGED <<VERIFY_SSL, cached_callback_public_key, constructedWith, lastInit, optedOut>>

\* The operation op of client c, called with args, has made the session call
\* `call` and waits for the response.  Nothing of the client or the class is
\* written.
Dispatch(c, op, args, call) ==
    /\ inflight' = inflight (+) SetToBag({[op |-> op, self |-> c, args |-> args,
                                           verify_ssl |-> VERIFY_SSL,
                                           calls |-> <<call>>]})
    /\ UNCHANGED <<VERIFY_SSL, cached_callback_public_key, clients, constructedWith, lastInit,
                   optedOut>>

\* client.create_address()
CreateAddress(I) ==
    /\ BagCardinality(inflight) < I.maxInflight
    /\ \E c \in DOMAIN clients :
        Dispatch(c, "create_address", [none |-> TRUE], Client_create_address(clients[c]))

\* client.send(amount, address)
Send(I) ==
    /\ BagCardinality(inflight) < I.maxInflight
    /\ \E c \in DOMAIN clients, amount \in I.amounts, address \in I.addresses :
        Dispatch(c, "send", [amount |-> amount, address |-> address], Client_send(clients[c], amount, address))

\* client._get / _post / _put / _delete (parts..., kwargs...)
Request(I) ==
    /\ BagCardinality(inflight) < I.maxInflight
    /\ \E c \in DOMAIN clients, parts \in I.parts, kwargs \in I.kwargs :
        \/ /\ "get" \in I.methods
           /\ Dispatch(c, "_get", [parts |-> parts, kwargs |-> kwargs], Client_get(clients[c], parts, kwargs))
        \/ /\ "post" \in I.methods
           /\ Dispatch(c, "_post", [parts |-> parts, kwargs |-> kwargs], Client_post(clients[c], parts, kwargs))
        \/ /\ "put" \in I.methods
           /\ Dispatch(c, "_put", [parts |-> parts, kwargs |-> kwargs], Client_put(clients[c], parts, kwargs))
        \/ /\ "delete" \in I.methods
           /\ Dispatch(c, "_delete", [parts |-> parts, kwargs |-> kwargs], Client_delete(clients[c], parts, kwargs))

\* the session call returns and _handle_response returns response.json()
Respond ==
    \E r \in BagToSet(inflight) :
        /\ inflight' = inflight (-) SetToBag({r})
        /\ UNCHANGED <<VERIFY_SSL, cached_callback_public_key, clients, constructedWith, lastInit,
                   optedOut>>

NextOf(I) ==
    \/ Construct(I)
    \/ SetVerifySSL
    \/ CreateAddress(I)
    \/ Send(I)
    \/ Request(I)
    \/ Respond

Next == NextOf(ConcurrentInputs)
NextConstruction == NextOf(ConstructionInputs)
NextRequest == NextOf(RequestInputs)

Spec == Init /\ [][Next]_vars
SpecConstruction == Init /\ [][NextConstruction]_vars
SpecRequest == Init /\ [][NextRequest]_vars

-----------------------------------------------------------------------------
(* Properties *)

InFlight == BagToSet(inflight)
Call(r) == r.calls[1]
Verbs == {"_get", "_post", "_put", "_delete"}

\* s ends with the string t
EndsWith(s, t) == Len(s) >= Len(t) /\ SubSeq(s, Len(s) - Len(t) + 1, Len(s)) = t

\* the number of '/' at the end of s
RECURSIVE TrailingSlashes(_)
TrailingSlashes(s) ==
    IF s = <<>> \/ s[Len(s)] # "/" THEN 0
    ELSE 1 + TrailingSlashes(SubSeq(s, 1, Len(s) - 1))

\* C1: whenever a request is dispatched while VERIFY_SSL is true, the verify
\* value handed to the session call is the pinned CA path ETHCLIENT_CRT_PATH.
C1_PinnedCAHandedToSession ==
    \A r \in InFlight :
        r.verify_ssl => Call(r).kwargs["verify"] = Str(ETHCLIENT_CRT_PATH)

\* C2: every client was built from a base URI that passed check_uri_security
\* first, holds the value the check returned, and every request goes to a URI
\* built from it; a base URI that fails the check makes construction raise
\* with no session built, no client, and no request to that URI.
C2_BaseUriCheckedBeforeUse ==
    /\ \A i \in DOMAIN clients :
        /\ clients[i].BASE_API_URI = constructedWith[i][3]
        /\ clients[i].BASE_API_URI.scheme = s_https
    /\ \A r \in InFlight :
        /\ Call(r).uri.scheme = s_https
        /\ Call(r).uri.netloc = clients[r.self].BASE_API_URI.netloc
    /\ lastInit.class = "Call" =>
        /\ lastInit.raised = "None" =>
            /\ lastInit.calls[1] = "check_uri_security"
            /\ lastInit.self.BASE_API_URI = lastInit.base_api_uri
        /\ lastInit.base_api_uri.scheme # s_https =>
            /\ lastInit.raised # "None"
            /\ lastInit.self = NoClient
            /\ \A k \in DOMAIN lastInit.calls :
                lastInit.calls[k] \notin {"requests.session", "HMACAuth"}
        /\ (lastInit.base_api_uri.scheme # s_https
            /\ Truthy(lastInit.api_key) /\ Truthy(lastInit.api_secret)) =>
            /\ lastInit.raised = "InsecureTransportError"
            /\ lastInit.calls = <<"check_uri_security">>

C2_Witness ==
    /\ lastInit.class = "Call"
    /\ lastInit.raised = "InsecureTransportError"
    /\ InFlight # {}

\* C3: a construction with an empty or missing api_key or api_secret raises
\* before the URI check and before any session or HMACAuth is created and
\* builds no client; every client that exists holds a non-empty api_key and a
\* non-empty api_secret.
C3_CredentialsRequiredAtConstruction ==
    /\ (lastInit.class = "Call"
        /\ (~Truthy(lastInit.api_key) \/ ~Truthy(lastInit.api_secret))) =>
        /\ lastInit.raised \in {"ValueError: Missing api_key.",
                                "ValueError: Missing api_secret."}
        /\ lastInit.calls = <<>>
        /\ lastInit.self = NoClient
    /\ (lastInit.class = "Call" /\ lastInit.raised # "None") => lastInit.self = NoClient
    /\ Len(clients) = Len(constructedWith)
    /\ \A i \in DOMAIN clients :
        /\ clients[i].class = "Client"
        /\ clients[i].session.auth.class = "HMACAuth"
        /\ Truthy(clients[i].session.auth.args[1])
        /\ Truthy(clients[i].session.auth.args[2])
        /\ Truthy(constructedWith[i][1])
        /\ Truthy(constructedWith[i][2])

C3_Witness ==
    /\ lastInit.class = "Call"
    /\ Truthy(lastInit.api_key)
    /\ lastInit.api_secret = Str(s_empty)
    /\ lastInit.raised = "ValueError: Missing api_secret."
    /\ clients # <<>>

\* C4: every operation makes its one HTTP request through the session of its
\* client, the auth handler of that session is the HMACAuth built from the
\* api_key, api_secret and API_VERSION of that client's construction, and no
\* request path (_get, _post, _put, _delete, create_address, send) hands the
\* session call an auth keyword, which would take the place of that handler
\* for the request.
C4_EveryRequestThroughAuthenticatedSession ==
    \A r \in InFlight :
        LET a == constructedWith[r.self]
        IN  /\ Len(r.calls) = 1
            /\ Call(r).session = clients[r.self].session
            /\ Call(r).session.auth =
                   [class |-> "HMACAuth",
                    args |-> <<a[1], a[2],
                               IF a[4] \in {None, Str(s_empty)} THEN Str(API_VERSION)
                               ELSE a[4]>>]
            /\ "auth" \notin DOMAIN Call(r).kwargs

\* C5: VERIFY_SSL is true unless the application has assigned it False, and a
\* request is dispatched with verify=False only after such an assignment;
\* neither construction nor a request (whatever verify keyword its caller
\* passes) turns verification off.
C5_VerificationOffOnlyByExplicitOptOut ==
    /\ ~optedOut => VERIFY_SSL = TRUE
    /\ \A r \in InFlight :
        Call(r).kwargs["verify"] = Bool(FALSE) => (optedOut /\ ~r.verify_ssl)

C5_Witness ==
    /\ \E r \in InFlight : Call(r).kwargs["verify"] = Bool(FALSE)
    /\ \E r \in InFlight :
        /\ r.op = "_get"
        /\ r.args.kwargs["verify"] = Bool(FALSE)
        /\ Call(r).kwargs["verify"] = Bool(TRUE)

\* C6: the callback public key is loaded and cached before any client
\* operation runs: no request is in flight while the cached key is unloaded.
C6_KeyLoadedBeforeAnyOperation ==
    InFlight # {} => cached_callback_public_key # None

\* C7: no request operation writes BASE_API_URI, API_VERSION, the session's
\* credential or the trust-anchor material: a step that dispatches or
\* completes a request leaves every client and the cached key as they were,
\* no step changes a client that exists, and every request in flight carries
\* the session of its own client as it was built at construction.
C7_RequestsWriteNoSharedState ==
    /\ [](\A r \in InFlight :
            /\ Call(r).session = clients[r.self].session
            /\ Call(r).session.auth.args[1] = constructedWith[r.self][1]
            /\ Call(r).uri.netloc = clients[r.self].BASE_API_URI.netloc
            /\ EndsWith(Call(r).uri.path, s_slash)
            /\ SubSeq(Call(r).uri.path, 1, Len(clients[r.self].BASE_API_URI.path))
                   = clients[r.self].BASE_API_URI.path)
    /\ [][/\ \A i \in DOMAIN clients : i \in DOMAIN clients' /\ clients'[i] = clients[i]
          /\ inflight' # inflight =>
                /\ clients' = clients
                /\ cached_callback_public_key' = cached_callback_public_key]_vars

C7_Witness ==
    \E r1, r2 \in InFlight :
        /\ r1.self # r2.self
        /\ clients[r1.self].session # clients[r2.self].session
        /\ clients[r1.self].API_VERSION # clients[r2.self].API_VERSION

\* C8: for every non-empty sequence of path parts, the path of the URI built
\* by _create_api_uri ends in exactly one '/'.
C8_ExactlyOneTrailingSlash ==
    \A r \in InFlight :
        (r.op \in Verbs /\ r.args.parts # <<>>) =>
            TrailingSlashes(Call(r).uri.path) = 1

\* C9: the verify value that reaches the session call is the client's
\* VERIFY_SSL, whatever verify keyword the caller of _request supplies, and
\* whether or not it supplies one.
C9_CallerCannotChangeVerify ==
    \A r \in InFlight :
        /\ "verify" \in DOMAIN Call(r).kwargs
        /\ Call(r).kwargs["verify"] = Bool(r.verify_ssl)

C9_Witness ==
    \E r \in InFlight :
        /\ r.op \in Verbs
        /\ r.verify_ssl
        /\ "verify" \in DOMAIN r.args.kwargs
        /\ r.args.kwargs["verify"] = Str(s_other_ca)
        /\ Call(r).kwargs["verify"] = Bool(TRUE)

\* the data keyword of the session call, for the keywords kw of the caller
ExpectedData(kw) ==
    IF kw["data"].type = "dict" /\ kw["data"].val # <<>>
    THEN encode_params(kw["data"]) ELSE kw["data"]

\* C10: _request replaces data by encode_params(data) exactly when data is a
\* non-empty dict, hands every other data value and every other keyword but
\* verify to the session call unchanged; send makes exactly one POST to the
\* URI of ('v1', 'send') whose body encodes amount and address, and
\* create_address exactly one POST to the URI of ('v1', 'addresses') with no
\* body.
C10_DataEncodedOnlyWhenNonEmptyDict ==
    \A r \in InFlight :
        /\ Len(r.calls) = 1
        /\ r.op \in Verbs =>
            LET kw == r.args.kwargs
                out == Call(r).kwargs
            IN  /\ DOMAIN out = DOMAIN kw \cup {"verify"}
                /\ \A k \in DOMAIN kw \ {"verify", "data"} : out[k] = kw[k]
                /\ "data" \in DOMAIN kw => out["data"] = ExpectedData(kw)
                /\ r.op = "_get" => Call(r).method = "get"
                /\ r.op = "_post" => Call(r).method = "post"
                /\ r.op = "_put" => Call(r).method = "put"
                /\ r.op = "_delete" => Call(r).method = "delete"
        /\ r.op = "send" =>
            /\ Call(r).method = "post"
            /\ Call(r).uri.netloc = clients[r.self].BASE_API_URI.netloc
            /\ EndsWith(Call(r).uri.path, <<"/">> \o s_v1 \o <<"/">> \o s_send \o <<"/">>)
            /\ DOMAIN Call(r).kwargs = {"data", "verify"}
            /\ Call(r).kwargs["data"] =
                   encode_params(Dict(<< <<s_amount, r.args.amount>>,
                                         <<s_address, r.args.address>> >>))
            /\ Call(r).kwargs["data"].type = "str"
        /\ r.op = "create_address" =>
            /\ Call(r).method = "post"
            /\ Call(r).uri.netloc = clients[r.self].BASE_API_URI.netloc
            /\ EndsWith(Call(r).uri.path, <<"/">> \o s_v1 \o <<"/">> \o s_addresses \o <<"/">>)
            /\ DOMAIN Call(r).kwargs = {"verify"}

C10_Witness ==
    \E r \in InFlight :
        /\ r.op = "_put"
        /\ r.args.kwargs = [timeout |-> Timeout, data |-> TwoParams]
        /\ Call(r).kwargs["timeout"] = Timeout
        /\ Call(r).kwargs["data"] =
               Str(s_address \o <<"=">> \o s_0xabc \o <<"&">> \o s_amount \o <<"=">> \o s_5)

====
